---- MODULE Spec2Model ----
(***************************************************************************)
(* Model of the remote-browser agent's streaming and control bridge:       *)
(*   api.Server  (frame throttle, viewer registry, broadcast, input loop,  *)
(*                HTTP handlers, Close)                                    *)
(*   chrome.Chrome (session commands behind Chrome.mu, screencast          *)
(*                listener with its per-frame acknowledgement, Close)      *)
(* Every goroutine is a process with a program counter; one action is one  *)
(* step between two synchronisation points of the Go code.                 *)
(***************************************************************************)
EXTENDS Integers, Sequences, FiniteSets, TLC

\* ---------------------------------------------------------------- bounds
MinFrameInterval == 40      \* ms; const minFrameInterval
MaxClock == 40              \* the clock stops advancing here (Spec)
MaxFrames == 2              \* raw frame events the session emits (Spec)
MaxMsgs == 2                \* inbound viewer messages read in total
MaxHttp == 2                \* HTTP requests served in total
ScriptFrames == 10          \* raw frame events the session emits (ThrottleSpec)
ScriptClock == 45           \* the clock stops advancing here (ThrottleSpec)
SessionFrames == 1          \* raw frame events the session emits (SessionSpec)
SessionClock == 0           \* the clock stops advancing here (SessionSpec)

CoarseTick == MinFrameInterval \div 2   \* clock step of Spec
FineTick == MinFrameInterval \div 8     \* clock step of ThrottleSpec (5 ms)

\* ---------------------------------------------------------------- processes
Viewers == {"v1", "v2"}          \* viewer connections, each served by handleWebSocket
Https == {"h1"}                  \* goroutines serving the POST routes
FrameCallers == {"f1", "f2"}     \* goroutines delivering session events to the listeners
Closers == {"k1", "k2"}          \* callers of Server.Close (deferred call, signal handler)
CmdProcs == Viewers \cup Https   \* callers of the Chrome command methods
Procs == CmdProcs \cup FrameCallers \cup Closers
None == "none"

VARIABLES
    pc,          \* position of every process
    clock,       \* time.Now(), in ms
    \* api.Server
    lastFrame,   \* Server.lastFrame: <<>> is the zero time.Time, <<t>> an instant
    frameMu,     \* holder of Server.frameMu, or None
    clients,     \* keys of Server.clients
    mu,          \* exclusive holder of Server.mu, or None
    conn,        \* state of each websocket connection: "new", "open", "closed"
    \* onFrame locals
    now,         \* the now of the caller's onFrame
    data,        \* the raw frame (its event number) the caller is handling
    snap,        \* connections of the caller's snapshot not yet sent to
    cur,         \* connection the caller is sending to or removing
    lst,         \* listener invocations left for the caller's event
    \* chrome.Chrome and the session behind it
    cmu,         \* holder of Chrome.mu, or None
    cmd,         \* command each command caller is issuing
    ev,          \* the input event each viewer's loop is handling (its local event)
    inflight,    \* the operation the session is executing for the holder of Chrome.mu
    streaming,   \* the session's screencast is started
    listeners,   \* listeners registered with ListenTarget
    released,    \* Chrome.ctx is cancelled
    acksPending, \* acknowledgement goroutines spawned and not yet running
    acksRunning, \* acknowledgement goroutines inside chromedp.Run
    acked,       \* acknowledgements the session has received
    \* Server.Close locals
    toClose,     \* connections the closer's loop has not closed yet
    \* environment budgets
    frames,      \* raw frame events emitted so far
    msgs,        \* viewer messages read so far
    https,       \* HTTP requests served so far
    \* history
    delivered,   \* per connection: the frame payloads written to it, in order
    fwd,         \* accepted timestamps, in the order lastFrame took them
    lastDec,     \* latest throttle decision: its time, its outcome, Len(fwd) then
    script,      \* throttle decisions so far came one every FineTick from time 0
    dropped,     \* connections removed from the registry after a failed send
    bcast,       \* per frame caller: its broadcast's snapshot, payload, deliveries, failures
    waitq,       \* command callers in the order they called Chrome.mu.Lock
    closeDone,   \* Server.Close calls that have returned
    late,        \* closers whose call began after another call had returned
    reclosed,    \* Close calls late Server.Close calls made on closed connections
    overtook     \* a caller got Chrome.mu while one that called Lock earlier waited

vars == <<pc, clock, lastFrame, frameMu, clients, mu, conn, now, data, snap, cur,
          lst, cmu, cmd, ev, inflight, streaming, listeners, released, acksPending,
          acksRunning, acked,
          toClose, frames, msgs, https, delivered, fwd, lastDec, script, dropped,
          bcast, waitq,
          closeDone, late, reclosed, overtook>>

frameVars == <<lastFrame, frameMu, now, data, snap, cur, lst, frames, fwd, lastDec,
               script, bcast>>
regVars == <<clients, mu, conn, delivered, dropped>>
chromeVars == <<cmu, cmd, ev, inflight, streaming, listeners, released, waitq, overtook>>
ackVars == <<acksPending, acksRunning, acked>>
closeVars == <<toClose, closeDone, late, reclosed>>
envVars == <<clock, msgs, https>>

NoBcast == [snap |-> {}, got |-> {}, failed |-> {}, before |-> {}, open |-> FALSE,
            msg |-> <<>>, at |-> 0]
NoCmd == [kind |-> None, button |-> None, args |-> <<>>]
NoEvent == [type |-> None]

Init ==
    /\ pc = [p \in Procs |-> "idle"]
    /\ clock = 0
    /\ lastFrame = <<>>
    /\ frameMu = None
    /\ clients = {}
    /\ mu = None
    /\ conn = [v \in Viewers |-> "new"]
    /\ now = [f \in FrameCallers |-> 0]
    /\ data = [f \in FrameCallers |-> 0]
    /\ snap = [f \in FrameCallers |-> {}]
    /\ cur = [f \in FrameCallers |-> None]
    /\ lst = [f \in FrameCallers |-> 0]
    /\ cmu = None
    /\ cmd = [p \in CmdProcs |-> NoCmd]
    /\ ev = [v \in Viewers |-> NoEvent]
    /\ inflight = None
    /\ streaming = FALSE
    /\ listeners = 0
    /\ released = FALSE
    /\ acksPending = 0
    /\ acksRunning = 0
    /\ acked = 0
    /\ toClose = [k \in Closers |-> {}]
    /\ frames = 0
    /\ msgs = 0
    /\ https = 0
    /\ delivered = [v \in Viewers |-> <<>>]
    /\ fwd = <<>>
    /\ lastDec = [t |-> 0, ok |-> FALSE, n |-> 0, any |-> FALSE]
    /\ script = [on |-> TRUE, n |-> 0]
    /\ dropped = {}
    /\ bcast = [f \in FrameCallers |-> NoBcast]
    /\ waitq = <<>>
    /\ closeDone = 0
    /\ late = {}
    /\ reclosed = 0
    /\ overtook = FALSE

\* ---------------------------------------------------------------- frame path
\* Mutant: the comparison with <= in place of <.
TooSoonInclusive(t, last) == last # <<>> /\ t - last[1] <= MinFrameInterval

\* now.Sub(s.lastFrame) < minFrameInterval. Sub of the zero time.Time saturates at
\* the maximum Duration, so the first frame is never too soon.
TooSoon(t, last) == last # <<>> /\ t - last[1] < MinFrameInterval

\* Mutant: onFrame without its frameMu critical section.
FrameMuFreeNoLock == TRUE

\* s.frameMu.Lock() returns only when nobody holds frameMu.
FrameMuFree == frameMu = None

\* s.mu.Lock() and s.mu.RLock() return only when no writer holds mu. Readers hold it
\* for one step only (the snapshot), so only the writer is tracked.
MuFree == mu = None

\* FrameMessage{Type: "frame", Data: base64(data)}, marshalled.
B64(n) == <<"b64", n>>
FrameMessage(n) == [type |-> "frame", data |-> B64(n)]

\* The session emits a frame event; the caller is about to run the registered
\* listeners on it, one after the other.
FrameEvent(f, max) ==
    /\ pc[f] = "idle"
    /\ streaming /\ ~released /\ listeners > 0
    /\ frames < max
    /\ frames' = frames + 1
    /\ data' = [data EXCEPT ![f] = frames + 1]
    /\ lst' = [lst EXCEPT ![f] = listeners]
    /\ pc' = [pc EXCEPT ![f] = "lock"]
    /\ UNCHANGED <<lastFrame, frameMu, now, snap, cur, fwd, lastDec, script, bcast,
                   regVars, chromeVars, ackVars, closeVars, envVars>>

\* onFrame has returned to the listener: it spawns the acknowledgement goroutine and
\* returns; the caller goes on to the next listener, if any.
Ret(f) ==
    /\ acksPending' = acksPending + 1
    /\ lst' = [lst EXCEPT ![f] = @ - 1]
    /\ pc' = [pc EXCEPT ![f] = IF lst[f] > 1 THEN "lock" ELSE "idle"]

\* s.frameMu.Lock()
FLock(f) ==
    /\ pc[f] = "lock"
    /\ FrameMuFree
    /\ frameMu' = f
    /\ pc' = [pc EXCEPT ![f] = "cmp"]
    /\ UNCHANGED <<lastFrame, now, data, snap, cur, lst, frames, fwd, lastDec, script,
                   bcast, regVars, chromeVars, ackVars, closeVars, envVars>>

\* The instants time.Now() may return: none is earlier than the latest reading, and
\* the model's clock moves in multiples of step. Time is read nowhere else, so the
\* clock advances with the reading.
Instants(step, max) == {t \in clock .. max : (t - clock) % step = 0}

\* Mutant: a frame that is too soon is dropped without being acknowledged.
FCompareGated(f, step, until) ==
    /\ pc[f] = "cmp"
    /\ \E t \in Instants(step, until) :
        /\ clock' = t
        /\ now' = [now EXCEPT ![f] = t]
        /\ lastDec' = [t |-> t, ok |-> ~TooSoon(t, lastFrame), n |-> Len(fwd),
                       any |-> TRUE]
        /\ script' = IF script.on /\ t = script.n * FineTick
                     THEN [on |-> TRUE, n |-> script.n + 1]
                     ELSE [on |-> FALSE, n |-> 0]
        /\ IF TooSoon(t, lastFrame)
           THEN /\ frameMu' = None
                /\ lst' = [lst EXCEPT ![f] = @ - 1]
                /\ pc' = [pc EXCEPT ![f] = IF lst[f] > 1 THEN "lock" ELSE "idle"]
                /\ UNCHANGED acksPending
           ELSE /\ pc' = [pc EXCEPT ![f] = "upd"]
                /\ UNCHANGED <<frameMu, lst, acksPending>>
    /\ UNCHANGED <<lastFrame, data, snap, cur, frames, fwd, bcast, acksRunning, acked,
                   regVars, chromeVars, closeVars, msgs, https>>

\* now := time.Now(); the comparison; on "too soon": Unlock and return.
FCompare(f, step, until) ==
    /\ pc[f] = "cmp"
    /\ \E t \in Instants(step, until) :
        /\ clock' = t
        /\ now' = [now EXCEPT ![f] = t]
        /\ lastDec' = [t |-> t, ok |-> ~TooSoon(t, lastFrame), n |-> Len(fwd),
                       any |-> TRUE]
        /\ script' = IF script.on /\ t = script.n * FineTick
                     THEN [on |-> TRUE, n |-> script.n + 1]
                     ELSE [on |-> FALSE, n |-> 0]
        /\ IF TooSoon(t, lastFrame)
           THEN /\ frameMu' = None
                /\ Ret(f)
           ELSE /\ pc' = [pc EXCEPT ![f] = "upd"]
                /\ UNCHANGED <<frameMu, lst, acksPending>>
    /\ UNCHANGED <<lastFrame, data, snap, cur, frames, fwd, bcast, acksRunning, acked,
                   regVars, chromeVars, closeVars, msgs, https>>

\* s.lastFrame = now; s.frameMu.Unlock()
FUpdate(f) ==
    /\ pc[f] = "upd"
    /\ lastFrame' = <<now[f]>>
    /\ fwd' = Append(fwd, [t |-> now[f], n |-> data[f]])
    /\ frameMu' = None
    /\ pc' = [pc EXCEPT ![f] = "snap"]
    /\ UNCHANGED <<now, data, snap, cur, lst, frames, lastDec, script, bcast,
                   regVars, chromeVars, ackVars, closeVars, envVars>>

\* RLock; copy the keys of s.clients; RUnlock; return if there are none.
FSnapshot(f) ==
    /\ pc[f] = "snap"
    /\ MuFree
    /\ snap' = [snap EXCEPT ![f] = clients]
    /\ bcast' = [bcast EXCEPT ![f] = [snap |-> clients, got |-> {}, failed |-> {},
                                      before |-> dropped, open |-> clients # {},
                                      msg |-> FrameMessage(data[f]), at |-> now[f]]]
    /\ IF clients = {}
       THEN Ret(f)
       ELSE /\ pc' = [pc EXCEPT ![f] = "send"]
            /\ UNCHANGED <<lst, acksPending>>
    /\ UNCHANGED <<lastFrame, frameMu, now, data, cur, frames, fwd, lastDec, script,
                   acksRunning, acked, regVars, chromeVars, closeVars, envVars>>

\* The loop takes the next connection of the snapshot (Go ranges over the slice that
\* was filled in map order, which is unspecified) and calls c.WriteMessage.
FSendBegin(f) ==
    /\ pc[f] = "send"
    /\ \E c \in snap[f] :
        /\ cur' = [cur EXCEPT ![f] = c]
        /\ snap' = [snap EXCEPT ![f] = @ \ {c}]
    /\ pc' = [pc EXCEPT ![f] = "write"]
    /\ UNCHANGED <<lastFrame, frameMu, now, data, lst, frames, fwd, lastDec, script,
                   bcast, regVars, chromeVars, ackVars, closeVars, envVars>>

\* The loop after one connection has been dealt with: the next one, or onFrame returns.
LoopNext(f, b) ==
    IF snap[f] = {}
    THEN /\ bcast' = [bcast EXCEPT ![f] = [b EXCEPT !.open = FALSE]]
         /\ Ret(f)
    ELSE /\ bcast' = [bcast EXCEPT ![f] = b]
         /\ pc' = [pc EXCEPT ![f] = "send"]
         /\ UNCHANGED <<lst, acksPending>>

\* c.WriteMessage returned nil: the payload is on the connection.
FSendOk(f) ==
    /\ pc[f] = "write"
    /\ conn[cur[f]] = "open"
    /\ delivered' = [delivered EXCEPT ![cur[f]] =
                        Append(@, [msg |-> bcast[f].msg, at |-> bcast[f].at])]
    /\ cur' = [cur EXCEPT ![f] = None]
    /\ LoopNext(f, [bcast[f] EXCEPT !.got = @ \cup {cur[f]}])
    /\ UNCHANGED <<lastFrame, frameMu, now, data, snap, frames, fwd, lastDec, script,
                   clients, mu, conn, dropped, acksRunning, acked, chromeVars,
                   closeVars, envVars>>

\* Mutant: a failed send returns from onFrame.
FSendFailAborts(f) ==
    /\ pc[f] = "write"
    /\ cur' = [cur EXCEPT ![f] = None]
    /\ bcast' = [bcast EXCEPT ![f] = [@ EXCEPT !.failed = @ \cup {cur[f]},
                                               !.open = FALSE]]
    /\ Ret(f)
    /\ UNCHANGED <<lastFrame, frameMu, now, data, snap, frames, fwd, lastDec, script,
                   regVars, acksRunning, acked, chromeVars, closeVars, envVars>>

\* c.WriteMessage returned an error (the connection is closed, or the network failed).
FSendFail(f) ==
    /\ pc[f] = "write"
    /\ pc' = [pc EXCEPT ![f] = "rm"]
    /\ UNCHANGED <<frameVars, regVars, chromeVars, ackVars, closeVars, envVars>>

\* Mutant: the failed connection is closed but stays in s.clients.
FRemoveKeeps(f) ==
    /\ pc[f] = "rm"
    /\ MuFree
    /\ dropped' = dropped \cup {cur[f]}
    /\ pc' = [pc EXCEPT ![f] = "close"]
    /\ UNCHANGED <<frameVars, clients, mu, conn, delivered, chromeVars, ackVars,
                   closeVars, envVars>>

\* Mutant: the removal without its s.mu.Unlock().
FRemoveHolds(f) ==
    /\ pc[f] = "rm"
    /\ MuFree
    /\ mu' = f
    /\ clients' = clients \ {cur[f]}
    /\ dropped' = dropped \cup {cur[f]}
    /\ pc' = [pc EXCEPT ![f] = "close"]
    /\ UNCHANGED <<frameVars, conn, delivered, chromeVars, ackVars, closeVars, envVars>>

\* s.mu.Lock(); delete(s.clients, c); s.mu.Unlock()
FRemove(f) ==
    /\ pc[f] = "rm"
    /\ MuFree
    /\ clients' = clients \ {cur[f]}
    /\ dropped' = dropped \cup {cur[f]}
    /\ pc' = [pc EXCEPT ![f] = "close"]
    /\ UNCHANGED <<frameVars, mu, conn, delivered, chromeVars, ackVars, closeVars,
                   envVars>>

\* Mutant: a failed send ends the loop (a return in place of going on).
FCloseAborts(f) ==
    /\ pc[f] = "close"
    /\ conn' = [conn EXCEPT ![cur[f]] = "closed"]
    /\ cur' = [cur EXCEPT ![f] = None]
    /\ bcast' = [bcast EXCEPT ![f] = [@ EXCEPT !.failed = @ \cup {cur[f]},
                                               !.open = FALSE]]
    /\ Ret(f)
    /\ UNCHANGED <<lastFrame, frameMu, now, data, snap, frames, fwd, lastDec, script,
                   clients, mu, delivered, dropped, acksRunning, acked, chromeVars,
                   closeVars, envVars>>

\* c.Close(), then the loop goes on.
FClose(f) ==
    /\ pc[f] = "close"
    /\ conn' = [conn EXCEPT ![cur[f]] = "closed"]
    /\ cur' = [cur EXCEPT ![f] = None]
    /\ LoopNext(f, [bcast[f] EXCEPT !.failed = @ \cup {cur[f]}])
    /\ UNCHANGED <<lastFrame, frameMu, now, data, snap, frames, fwd, lastDec, script,
                   clients, mu, delivered, dropped, acksRunning, acked, chromeVars,
                   closeVars, envVars>>

\* The acknowledgement goroutine: chromedp.Run(c.ctx, ScreencastFrameAck), with no lock.
AckBegin ==
    /\ acksPending > 0
    /\ acksPending' = acksPending - 1
    /\ acksRunning' = acksRunning + 1
    /\ UNCHANGED <<pc, acked, frameVars, regVars, chromeVars, closeVars, envVars>>

\* The acknowledgement's chromedp.Run returns: the session has received it, unless the
\* context was cancelled.
AckEnd ==
    /\ acksRunning > 0
    /\ acksRunning' = acksRunning - 1
    /\ acked' = IF released THEN acked ELSE acked + 1
    /\ UNCHANGED <<pc, acksPending, frameVars, regVars, chromeVars, closeVars, envVars>>

\* ---------------------------------------------------------------- Command Serializer
\* Mutant: a command method without c.mu.Lock().
ChromeMuFreeNoLock == TRUE

\* c.mu.Lock() returns only when nobody holds Chrome.mu. sync.Mutex hands the lock to
\* any goroutine that is trying to take it, not to the one that has waited longest.
ChromeMuFree == cmu = None

\* Where the caller is once the method has returned nil: back in handleWebSocket's
\* loop, or done with the request.
CmdReturn(p) == IF p \in Viewers THEN "read" ELSE "idle"

\* Where the caller is once the method has returned an error: handleInput drops it, the
\* HTTP handler answers 500.
ErrReturn(p) == IF p \in Viewers THEN "swallow" ELSE "idle"

\* The button MouseClick dispatches for the name it was given.
MouseButton(name) ==
    CASE name = "right" -> "Right"
      [] name = "middle" -> "Middle"
      [] OTHER -> "Left"

\* The operation the command's chromedp.Run sends to the session first.
FirstOp(c) ==
    CASE c.kind = "MouseMove" -> [op |-> "MouseMoved", args |-> c.args, btn |-> None]
      [] c.kind = "MouseClick" ->
            [op |-> "MousePressed", args |-> c.args, btn |-> MouseButton(c.button)]
      [] c.kind = "KeyPress" -> [op |-> "KeyEvent", args |-> c.args, btn |-> None]
      [] c.kind = "TypeText" -> [op |-> "InsertText", args |-> c.args, btn |-> None]
      [] c.kind = "Scroll" -> [op |-> "MouseWheel", args |-> c.args, btn |-> None]
      [] OTHER -> [op |-> c.kind, args |-> c.args, btn |-> None]

\* The second operation of MouseClick.
ReleaseOp(c) == [op |-> "MouseReleased", args |-> c.args, btn |-> MouseButton(c.button)]

\* The caller enters one of the Chrome command methods: its first statement is c.mu.Lock().
Issue(p, c) ==
    /\ cmd' = [cmd EXCEPT ![p] = c]
    /\ waitq' = Append(waitq, p)
    /\ pc' = [pc EXCEPT ![p] = "wait"]

\* Mutant: Lock returns although another caller holds the mutex.
LockBarges(p) ==
    /\ pc[p] = "wait"
    /\ cmu' = p
    /\ waitq' = SelectSeq(waitq, LAMBDA q : q # p)
    /\ overtook' = (overtook \/ waitq[1] # p)
    /\ inflight' = FirstOp(cmd[p])
    /\ pc' = [pc EXCEPT ![p] = "run"]
    /\ UNCHANGED <<cmd, ev, streaming, listeners, released, frameVars, regVars,
                   ackVars, closeVars, envVars>>

\* c.mu.Lock() returns, and the method's chromedp.Run begins.
Lock(p) ==
    /\ pc[p] = "wait"
    /\ ChromeMuFree
    /\ cmu' = p
    /\ waitq' = SelectSeq(waitq, LAMBDA q : q # p)
    /\ overtook' = (overtook \/ waitq[1] # p)
    /\ inflight' = FirstOp(cmd[p])
    /\ pc' = [pc EXCEPT ![p] = "run"]
    /\ UNCHANGED <<cmd, ev, streaming, listeners, released, frameVars, regVars,
                   ackVars, closeVars, envVars>>

\* chromedp.Run has returned (nil if ok), the deferred c.mu.Unlock() runs and the method
\* returns to its caller.
Unlock(p, ok) ==
    /\ cmu' = None
    /\ inflight' = None
    /\ cmd' = [cmd EXCEPT ![p] = NoCmd]
    /\ ev' = IF p \in Viewers THEN [ev EXCEPT ![p] = NoEvent] ELSE ev
    /\ pc' = [pc EXCEPT ![p] = IF ok THEN CmdReturn(p) ELSE ErrReturn(p)]

\* What one successful chromedp.Run of the command does to the session.
Applied(p, ok) ==
    CASE cmd[p].kind = "StartScreencast" ->
            /\ listeners' = listeners + 1
            /\ streaming' = IF ok THEN TRUE ELSE streaming
      [] cmd[p].kind = "StopScreencast" ->
            /\ streaming' = IF ok THEN FALSE ELSE streaming
            /\ UNCHANGED listeners
      [] OTHER -> UNCHANGED <<streaming, listeners>>

\* Navigate, Capture, StartScreencast, StopScreencast, MouseMove, KeyPress, TypeText,
\* Scroll: one chromedp.Run under the lock, then the deferred Unlock. The run fails
\* when the context is cancelled and may fail otherwise.
CmdRun(p) ==
    /\ pc[p] = "run"
    /\ cmd[p].kind # "MouseClick"
    /\ \E ok \in {TRUE, FALSE} :
        /\ released => ~ok
        /\ Applied(p, ok)
        /\ Unlock(p, ok)
    /\ UNCHANGED <<released, waitq, overtook, frameVars, regVars, ackVars, closeVars,
                   envVars>>

\* MouseClick, first half: the MousePressed dispatch. If it fails the action returns.
CmdPress(p) ==
    /\ pc[p] = "run"
    /\ cmd[p].kind = "MouseClick"
    /\ \/ /\ ~released
          /\ inflight' = ReleaseOp(cmd[p])
          /\ pc' = [pc EXCEPT ![p] = "run2"]
          /\ UNCHANGED <<cmu, cmd, ev>>
       \/ Unlock(p, FALSE)
    /\ UNCHANGED <<streaming, listeners, released, waitq, overtook, frameVars, regVars,
                   ackVars, closeVars, envVars>>

\* MouseClick, second half: the MouseReleased dispatch returns, then the deferred Unlock.
CmdRelease(p) ==
    /\ pc[p] = "run2"
    /\ \E ok \in {TRUE, FALSE} :
        /\ released => ~ok
        /\ Unlock(p, ok)
    /\ UNCHANGED <<streaming, listeners, released, waitq, overtook, frameVars, regVars,
                   ackVars, closeVars, envVars>>

\* ---------------------------------------------------------------- viewer connections
Types == {"mousemove", "mousedown", "click", "keydown", "text", "wheel", "other"}
Buttons == 0 .. 3
Coords == {10, 20}
Keys == {"a", "Enter"}
Texts == {"hi", "yo"}
Deltas == {0, 3}

\* InputEvent values with every field varied, and one event of every type.
PayloadEvents == [type : Types, x : Coords, y : Coords, button : Buttons, key : Keys,
                  text : Texts, deltaX : Deltas, deltaY : Deltas]
InputEvents == [type : Types, x : {10}, y : {20}, button : {0}, key : {"a"},
                text : {"hi"}, deltaX : {0}, deltaY : {3}]

\* Mutant: button codes 1 and 2 exchanged.
HandleInputSwapped(e) ==
    CASE e.type = "mousemove" ->
            [kind |-> "MouseMove", button |-> None, args |-> <<e.x, e.y>>]
      [] e.type \in {"mousedown", "click"} ->
            [kind |-> "MouseClick",
             button |-> IF e.button = 1 THEN "right"
                        ELSE IF e.button = 2 THEN "middle" ELSE "left",
             args |-> <<e.x, e.y>>]
      [] e.type = "keydown" -> [kind |-> "KeyPress", button |-> None, args |-> <<e.key>>]
      [] e.type = "text" -> [kind |-> "TypeText", button |-> None, args |-> <<e.text>>]
      [] e.type = "wheel" ->
            [kind |-> "Scroll", button |-> None,
             args |-> <<e.x, e.y, e.deltaX, e.deltaY>>]
      [] OTHER -> NoCmd

\* handleInput: the Chrome method the event is turned into, with its arguments; NoCmd
\* when its type is unknown.
HandleInput(e) ==
    CASE e.type = "mousemove" ->
            [kind |-> "MouseMove", button |-> None, args |-> <<e.x, e.y>>]
      [] e.type \in {"mousedown", "click"} ->
            [kind |-> "MouseClick",
             button |-> IF e.button = 2 THEN "right"
                        ELSE IF e.button = 1 THEN "middle" ELSE "left",
             args |-> <<e.x, e.y>>]
      [] e.type = "keydown" -> [kind |-> "KeyPress", button |-> None, args |-> <<e.key>>]
      [] e.type = "text" -> [kind |-> "TypeText", button |-> None, args |-> <<e.text>>]
      [] e.type = "wheel" ->
            [kind |-> "Scroll", button |-> None,
             args |-> <<e.x, e.y, e.deltaX, e.deltaY>>]
      [] OTHER -> NoCmd

\* Mutant: attaching starts the screencast when it is stopped.
VAttachStarts(v) ==
    /\ pc[v] = "idle"
    /\ conn[v] = "new"
    /\ MuFree
    /\ conn' = [conn EXCEPT ![v] = "open"]
    /\ clients' = clients \cup {v}
    /\ IF streaming
       THEN /\ pc' = [pc EXCEPT ![v] = "read"]
            /\ UNCHANGED <<cmd, waitq>>
       ELSE Issue(v, [kind |-> "StartScreencast", button |-> None, args |-> <<>>])
    /\ UNCHANGED <<mu, delivered, dropped, cmu, ev, inflight, streaming, listeners, released, overtook,
                   frameVars, ackVars, closeVars, envVars>>

\* handleWebSocket up to its loop: the upgrade, then s.clients[conn] = true under s.mu.
VAttach(v) ==
    /\ pc[v] = "idle"
    /\ conn[v] = "new"
    /\ MuFree
    /\ conn' = [conn EXCEPT ![v] = "open"]
    /\ clients' = clients \cup {v}
    /\ pc' = [pc EXCEPT ![v] = "read"]
    /\ UNCHANGED <<mu, delivered, dropped, frameVars, chromeVars, ackVars, closeVars,
                   envVars>>

\* conn.ReadMessage returned a message that json.Unmarshal turns into one of events:
\* handleInput calls the Chrome method for it, or returns at once when the type is
\* unknown.
VRead(v, events) ==
    /\ pc[v] = "read"
    /\ conn[v] = "open"
    /\ msgs < MaxMsgs
    /\ msgs' = msgs + 1
    /\ \E e \in events :
        IF HandleInput(e) = NoCmd
        THEN UNCHANGED <<pc, cmd, waitq, ev>>
        ELSE /\ Issue(v, HandleInput(e))
             /\ ev' = [ev EXCEPT ![v] = e]
    /\ UNCHANGED <<cmu, inflight, streaming, listeners, released, overtook, frameVars,
                   regVars, ackVars, closeVars, clock, https>>

VInput(v) == VRead(v, InputEvents)

\* Mutant: a message that cannot be parsed ends the loop.
VMalformedBreaks(v) ==
    /\ pc[v] = "read"
    /\ conn[v] = "open"
    /\ msgs < MaxMsgs
    /\ msgs' = msgs + 1
    /\ pc' = [pc EXCEPT ![v] = "detach"]
    /\ UNCHANGED <<frameVars, regVars, chromeVars, ackVars, closeVars, clock, https>>

\* conn.ReadMessage returned a message that json.Unmarshal rejects: the loop is at its
\* continue statement.
VMalformed(v) ==
    /\ pc[v] = "read"
    /\ conn[v] = "open"
    /\ msgs < MaxMsgs
    /\ msgs' = msgs + 1
    /\ pc' = [pc EXCEPT ![v] = "cont"]
    /\ UNCHANGED <<frameVars, regVars, chromeVars, ackVars, closeVars, clock, https>>

\* continue: the loop's next iteration calls conn.ReadMessage.
VContinue(v) ==
    /\ pc[v] = "cont"
    /\ pc' = [pc EXCEPT ![v] = "read"]
    /\ UNCHANGED <<frameVars, regVars, chromeVars, ackVars, closeVars, envVars>>

\* The Chrome method returned an error: handleInput ignores the result and returns, and
\* the loop's next iteration calls conn.ReadMessage.
VSwallow(v) ==
    /\ pc[v] = "swallow"
    /\ pc' = [pc EXCEPT ![v] = "read"]
    /\ UNCHANGED <<frameVars, regVars, chromeVars, ackVars, closeVars, envVars>>

\* conn.ReadMessage returned an error (the peer left, or the connection was closed
\* here): break out of the loop.
VReadErr(v) ==
    /\ pc[v] = "read"
    /\ pc' = [pc EXCEPT ![v] = "detach"]
    /\ UNCHANGED <<frameVars, regVars, chromeVars, ackVars, closeVars, envVars>>

\* Mutant: the last viewer leaving stops the screencast.
VDetachStops(v) ==
    /\ pc[v] = "detach"
    /\ MuFree
    /\ clients' = clients \ {v}
    /\ streaming' = IF clients \ {v} = {} THEN FALSE ELSE streaming
    /\ pc' = [pc EXCEPT ![v] = "vclose"]
    /\ UNCHANGED <<mu, conn, delivered, dropped, frameVars, cmu, cmd, ev, inflight,
                   listeners, released, waitq, overtook, ackVars, closeVars, envVars>>

\* The deferred function: delete(s.clients, conn) under s.mu ...
VDetach(v) ==
    /\ pc[v] = "detach"
    /\ MuFree
    /\ clients' = clients \ {v}
    /\ pc' = [pc EXCEPT ![v] = "vclose"]
    /\ UNCHANGED <<mu, conn, delivered, dropped, frameVars, chromeVars, ackVars,
                   closeVars, envVars>>

\* ... then conn.Close().
VClose(v) ==
    /\ pc[v] = "vclose"
    /\ conn' = [conn EXCEPT ![v] = "closed"]
    /\ pc' = [pc EXCEPT ![v] = "exited"]
    /\ UNCHANGED <<clients, mu, delivered, dropped, frameVars, chromeVars, ackVars,
                   closeVars, envVars>>

\* ---------------------------------------------------------------- HTTP handlers
HttpKinds == {"Navigate", "Capture", "StartScreencast", "StopScreencast"}

\* openURL, capture, startStream, stopStream: each calls its Chrome method.
HRequest(h) ==
    /\ pc[h] = "idle"
    /\ https < MaxHttp
    /\ https' = https + 1
    /\ \E k \in HttpKinds : Issue(h, [kind |-> k, button |-> None, args |-> <<>>])
    /\ UNCHANGED <<cmu, ev, inflight, streaming, listeners, released, overtook, frameVars, regVars,
                   ackVars, closeVars, clock, msgs>>

\* ---------------------------------------------------------------- shutdown
\* Server.Close: s.mu.Lock(), and the range over s.clients begins.
CLock(k) ==
    /\ pc[k] = "idle"
    /\ MuFree
    /\ mu' = k
    /\ toClose' = [toClose EXCEPT ![k] = clients]
    /\ late' = IF closeDone > 0 THEN late \cup {k} ELSE late
    /\ pc' = [pc EXCEPT ![k] = "loop"]
    /\ UNCHANGED <<clients, conn, delivered, dropped, closeDone, reclosed, frameVars,
                   chromeVars, ackVars, envVars>>

\* c.Close() on one connection of the range.
CCloseConn(k) ==
    /\ pc[k] = "loop"
    /\ \E c \in toClose[k] :
        /\ conn' = [conn EXCEPT ![c] = "closed"]
        /\ toClose' = [toClose EXCEPT ![k] = @ \ {c}]
        /\ reclosed' = IF k \in late /\ conn[c] = "closed" THEN reclosed + 1 ELSE reclosed
    /\ UNCHANGED <<pc, clients, mu, delivered, dropped, closeDone, late, frameVars,
                   chromeVars, ackVars, envVars>>

\* s.mu.Unlock() after the range.
CUnlock(k) ==
    /\ pc[k] = "loop"
    /\ toClose[k] = {}
    /\ mu' = None
    /\ pc' = [pc EXCEPT ![k] = "cancel"]
    /\ UNCHANGED <<clients, conn, delivered, dropped, closeVars, frameVars, chromeVars,
                   ackVars, envVars>>

\* Chrome.Close: c.cancel(). Cancelling a cancelled context does nothing.
CCancel(k) ==
    /\ pc[k] = "cancel"
    /\ released' = TRUE
    /\ pc' = [pc EXCEPT ![k] = "alloc"]
    /\ UNCHANGED <<cmu, cmd, ev, inflight, streaming, listeners, waitq, overtook,
                   closeVars, frameVars, regVars, ackVars, envVars>>

\* Chrome.Close: c.allocCancel(), return nil; Server.Close returns it.
CAllocCancel(k) ==
    /\ pc[k] = "alloc"
    /\ closeDone' = closeDone + 1
    /\ pc' = [pc EXCEPT ![k] = "done"]
    /\ UNCHANGED <<toClose, late, reclosed, frameVars, regVars, chromeVars, ackVars,
                   envVars>>

\* ---------------------------------------------------------------- specifications
\* One step of a frame caller.
FrameStep(f, max, step, until) ==
    \/ FrameEvent(f, max)
    \/ FLock(f) \/ FCompare(f, step, until) \/ FUpdate(f) \/ FSnapshot(f)
    \/ FSendBegin(f) \/ FSendOk(f) \/ FSendFail(f) \/ FRemove(f) \/ FClose(f)

\* One step of a command caller inside a Chrome command method.
CmdStep(p) == Lock(p) \/ CmdRun(p) \/ CmdPress(p) \/ CmdRelease(p)

\* One step of a viewer's handleWebSocket outside the command methods.
ViewerStep(v) ==
    \/ VAttach(v) \/ VInput(v) \/ VMalformed(v) \/ VContinue(v) \/ VSwallow(v)
    \/ VReadErr(v) \/ VDetach(v) \/ VClose(v)

\* One step of a Server.Close call.
CloseStep(k) ==
    CLock(k) \/ CCloseConn(k) \/ CUnlock(k) \/ CCancel(k) \/ CAllocCancel(k)

\* The whole agent.
Next ==
    \/ \E f \in FrameCallers : FrameStep(f, MaxFrames, CoarseTick, MaxClock)
    \/ AckBegin \/ AckEnd
    \/ \E p \in CmdProcs : CmdStep(p)
    \/ \E v \in Viewers : ViewerStep(v)
    \/ \E h \in Https : HRequest(h)
    \/ \E k \in Closers : CloseStep(k)

Spec == Init /\ [][Next]_vars

\* The state after one successful POST /start-stream: the agent of Init with one
\* listener registered and the screencast started.
InitStreaming ==
    /\ pc = [p \in Procs |-> "idle"]
    /\ clock = 0
    /\ lastFrame = <<>>
    /\ frameMu = None
    /\ clients = {}
    /\ mu = None
    /\ conn = [v \in Viewers |-> "new"]
    /\ now = [f \in FrameCallers |-> 0]
    /\ data = [f \in FrameCallers |-> 0]
    /\ snap = [f \in FrameCallers |-> {}]
    /\ cur = [f \in FrameCallers |-> None]
    /\ lst = [f \in FrameCallers |-> 0]
    /\ cmu = None
    /\ cmd = [p \in CmdProcs |-> NoCmd]
    /\ ev = [v \in Viewers |-> NoEvent]
    /\ inflight = None
    /\ streaming = TRUE
    /\ listeners = 1
    /\ released = FALSE
    /\ acksPending = 0
    /\ acksRunning = 0
    /\ acked = 0
    /\ toClose = [k \in Closers |-> {}]
    /\ frames = 0
    /\ msgs = 0
    /\ https = 1
    /\ delivered = [v \in Viewers |-> <<>>]
    /\ fwd = <<>>
    /\ lastDec = [t |-> 0, ok |-> FALSE, n |-> 0, any |-> FALSE]
    /\ script = [on |-> TRUE, n |-> 0]
    /\ dropped = {}
    /\ bcast = [f \in FrameCallers |-> NoBcast]
    /\ waitq = <<>>
    /\ closeDone = 0
    /\ late = {}
    /\ reclosed = 0
    /\ overtook = FALSE

\* The frame path and the registry: frame events delivered by concurrent callers to
\* viewers that attach and leave.
NextFrame ==
    \/ \E f \in FrameCallers : FrameStep(f, MaxFrames, CoarseTick, MaxClock)
    \/ \E v \in Viewers : VAttach(v) \/ VReadErr(v) \/ VDetach(v) \/ VClose(v)

FrameSpec == InitStreaming /\ [][NextFrame]_vars

\* The Command Serializer: viewers' input loops and HTTP handlers issuing commands.
NextCmd ==
    \/ \E p \in CmdProcs : CmdStep(p)
    \/ \E v \in Viewers : ViewerStep(v)
    \/ \E h \in Https : HRequest(h)

CmdSpec == Init /\ [][NextCmd]_vars

\* The session's callers: commands, the frame listener with its acknowledgements,
\* shutdown.
NextSession ==
    \/ \E f \in {"f1"} : FrameStep(f, SessionFrames, CoarseTick, SessionClock)
    \/ AckBegin \/ AckEnd
    \/ \E p \in {"v1", "h1"} : CmdStep(p)
    \/ \E v \in {"v1"} : ViewerStep(v)
    \/ \E h \in Https : HRequest(h)
    \/ \E k \in {"k1"} : CloseStep(k)

SessionSpec == Init /\ [][NextSession]_vars

\* Shutdown: Server.Close called from two places while viewers come and go.
NextClose ==
    \/ \E k \in Closers : CloseStep(k)
    \/ \E v \in Viewers : VAttach(v) \/ VReadErr(v) \/ VDetach(v) \/ VClose(v)

CloseSpec == Init /\ [][NextClose]_vars

\* The throttle with a fine clock: one viewer is attached and streaming is started;
\* the session emits up to ScriptFrames frames.
InitScript ==
    /\ pc = [p \in Procs |-> IF p = "v1" THEN "read" ELSE "idle"]
    /\ clock = 0
    /\ lastFrame = <<>>
    /\ frameMu = None
    /\ clients = {"v1"}
    /\ mu = None
    /\ conn = [v \in Viewers |-> IF v = "v1" THEN "open" ELSE "new"]
    /\ now = [f \in FrameCallers |-> 0]
    /\ data = [f \in FrameCallers |-> 0]
    /\ snap = [f \in FrameCallers |-> {}]
    /\ cur = [f \in FrameCallers |-> None]
    /\ lst = [f \in FrameCallers |-> 0]
    /\ cmu = None
    /\ cmd = [p \in CmdProcs |-> NoCmd]
    /\ ev = [v \in Viewers |-> NoEvent]
    /\ inflight = None
    /\ streaming = TRUE
    /\ listeners = 1
    /\ released = FALSE
    /\ acksPending = 0
    /\ acksRunning = 0
    /\ acked = 0
    /\ toClose = [k \in Closers |-> {}]
    /\ frames = 0
    /\ msgs = 0
    /\ https = 1
    /\ delivered = [v \in Viewers |-> <<>>]
    /\ fwd = <<>>
    /\ lastDec = [t |-> 0, ok |-> FALSE, n |-> 0, any |-> FALSE]
    /\ script = [on |-> TRUE, n |-> 0]
    /\ dropped = {}
    /\ bcast = [f \in FrameCallers |-> NoBcast]
    /\ waitq = <<>>
    /\ closeDone = 0
    /\ late = {}
    /\ reclosed = 0
    /\ overtook = FALSE

NextThrottle ==
    \/ \E f \in FrameCallers : FrameStep(f, ScriptFrames, FineTick, ScriptClock)

ThrottleSpec == InitScript /\ [][NextThrottle]_vars

\* The listener and its acknowledgements while the screencast stays active: the steps
\* of a listener invocation once its event has arrived, and of the acknowledgement
\* goroutines, are taken by goroutines the Go scheduler keeps running.
FrameRun(f) ==
    \/ FLock(f) \/ FCompare(f, CoarseTick, MaxClock) \/ FUpdate(f) \/ FSnapshot(f)
    \/ FSendBegin(f) \/ FSendOk(f) \/ FSendFail(f) \/ FRemove(f) \/ FClose(f)

NextAck ==
    \/ \E f \in {"f1"} : FrameEvent(f, MaxFrames) \/ FrameRun(f)
    \/ AckBegin \/ AckEnd
    \/ \E v \in Viewers : VAttach(v) \/ VReadErr(v) \/ VDetach(v) \/ VClose(v)

AckSpec ==
    /\ InitStreaming
    /\ [][NextAck]_vars
    /\ WF_vars(FrameRun("f1"))
    /\ WF_vars(AckBegin)
    /\ WF_vars(AckEnd)

\* The registry and its lock: a frame caller broadcasting, viewers attaching and
\* leaving, Server.Close.
NextRegistry ==
    \/ \E f \in {"f1"} : FrameStep(f, MaxFrames, CoarseTick, MaxClock)
    \/ \E v \in Viewers : VAttach(v) \/ VReadErr(v) \/ VDetach(v) \/ VClose(v)
    \/ \E k \in {"k1"} : CloseStep(k)

RegistrySpec == InitStreaming /\ [][NextRegistry]_vars

\* One viewer's input loop, reading events with every payload.
NextInput ==
    \/ \E v \in {"v1"} :
        \/ VAttach(v) \/ VRead(v, PayloadEvents) \/ VMalformed(v) \/ VContinue(v)
        \/ VSwallow(v) \/ VReadErr(v) \/ VDetach(v) \/ VClose(v)
    \/ \E p \in {"v1"} : CmdStep(p)

InputSpec == Init /\ [][NextInput]_vars

\* ---------------------------------------------------------------- claims
Range(q) == {q[i] : i \in 1 .. Len(q)}

\* The caller is inside the region of Chrome.mu, executing against the session.
InRegion(p) == pc[p] \in {"run", "run2"}

\* A broadcast that took a non-empty snapshot and has finished its loop.
Finished(f) == bcast[f].snap # {} /\ ~bcast[f].open

\* The entry a delivery of the caller's broadcast leaves on a connection.
Entry(f) == [msg |-> bcast[f].msg, at |-> bcast[f].at]

\* C1: at most one of the command callers is executing against the session, the one
\* that holds Chrome.mu; in particular, while a MouseClick is between its press and
\* its release no other command is executing.
C1_MutualExclusion ==
    /\ \A p, q \in CmdProcs : InRegion(p) /\ InRegion(q) => p = q
    /\ \A p \in CmdProcs : InRegion(p) => cmu = p
    /\ \A p \in CmdProcs : pc[p] = "run2" => \A q \in CmdProcs \ {p} : ~InRegion(q)

\* A MouseClick is between press and release while two other commands wait.
C1_Witness ==
    \E p \in CmdProcs :
        /\ pc[p] = "run2"
        /\ \A q \in CmdProcs \ {p} : pc[q] = "wait"

\* C2: any two consecutively forwarded frames have accepted timestamps at least
\* MinFrameInterval apart.
C2_RateCap ==
    \A i \in 1 .. Len(fwd) - 1 : fwd[i + 1].t - fwd[i].t >= MinFrameInterval

\* Two frames have been forwarded, by different callers, the second while the
\* caller of the first was still broadcasting.
C2_Witness ==
    /\ Len(fwd) = 2
    /\ \E f, g \in FrameCallers :
        /\ f # g
        /\ data[f] = fwd[1].n /\ pc[f] \in {"snap", "send", "write"}
        /\ data[g] = fwd[2].n /\ pc[g] = "snap"

\* C3: a raw frame is forwarded iff it is the first or at least MinFrameInterval after
\* the last forwarded one; lastFrame is the timestamp of the last forwarded frame;
\* what a viewer receives are forwarded frames, each once; and ten raw frames, one
\* every 5 ms from 0, reach a viewer that stays attached as the two frames of 0 and
\* 40 ms.
C3_ThrottlePolicy ==
    /\ lastDec.any =>
        (lastDec.ok <=> (lastDec.n = 0 \/ lastDec.t - fwd[lastDec.n].t >= MinFrameInterval))
    /\ lastFrame = IF fwd = <<>> THEN <<>> ELSE <<fwd[Len(fwd)].t>>
    /\ \A v \in Viewers :
        /\ \A i \in 1 .. Len(delivered[v]) :
            \E j \in 1 .. Len(fwd) :
                delivered[v][i] = [msg |-> FrameMessage(fwd[j].n), at |-> fwd[j].t]
        /\ \A i, j \in 1 .. Len(delivered[v]) : delivered[v][i] = delivered[v][j] => i = j
    /\ (/\ script.on /\ script.n = 10
        /\ \A f \in FrameCallers : pc[f] = "idle"
        /\ "v1" \in clients)
       => /\ Len(delivered["v1"]) = 2
          /\ {delivered["v1"][i].at : i \in 1 .. 2} = {0, MinFrameInterval}

\* The ten frames of the scenario have all been handled and the viewer is attached.
C3_Witness ==
    /\ script.on /\ script.n = 10
    /\ \A f \in FrameCallers : pc[f] = "idle"
    /\ "v1" \in clients
    /\ Len(delivered["v1"]) = 2

\* What holds of every broadcast in every state (used by C4).
C4_Isolated ==
    /\ \A f \in FrameCallers :
        /\ pc[f] = "close" => cur[f] \notin clients
        /\ \A c \in bcast[f].failed : c \notin clients /\ conn[c] = "closed"
        /\ Finished(f) => bcast[f].got \cup bcast[f].failed = bcast[f].snap
        /\ bcast[f].snap \cap bcast[f].before = {}
        /\ pc[f] \in {"write", "rm", "close"} => cur[f] \notin bcast[f].before

\* The removal step takes the failed connection out of the registry, it alone, and
\* touches no connection (used by C4).
C4_OnlyThat ==
    \A f \in FrameCallers :
        pc[f] = "rm" /\ pc'[f] = "close" =>
            /\ clients' = clients \ {cur[f]}
            /\ conn' = conn

\* C4: a connection whose send failed is removed from the registry, it alone, and
\* closed; the broadcast still attempts every connection of its snapshot; a broadcast
\* that takes its snapshot after the removal does not send to that connection.
C4_FailureIsolation == []C4_Isolated /\ [][C4_OnlyThat]_vars

\* A broadcast lost one connection and delivered to the other; a broadcast that began
\* after a removal has delivered to the remaining connection.
C4_Witness ==
    /\ \E f \in FrameCallers :
        Finished(f) /\ bcast[f].failed # {} /\ bcast[f].got # {}
    /\ \E g \in FrameCallers :
        Finished(g) /\ bcast[g].before # {} /\ bcast[g].got # {}

\* C5: a finished broadcast with N connections in its snapshot has left its payload on
\* exactly N connections less those whose send failed, and those are out of the
\* registry: N deliveries, or fewer iff a send failed.
C5_DeliveryCount ==
    \A f \in FrameCallers :
        Finished(f) =>
            LET N == Cardinality(bcast[f].snap)
                D == {v \in Viewers : Entry(f) \in Range(delivered[v])}
            IN  /\ D \subseteq bcast[f].snap
                /\ Cardinality(D) = N - Cardinality(bcast[f].failed)
                /\ (Cardinality(D) < N <=> bcast[f].failed # {})
                /\ bcast[f].failed \cap clients = {}
                /\ \E j \in 1 .. Len(fwd) :
                    Entry(f) = [msg |-> FrameMessage(fwd[j].n), at |-> fwd[j].t]
                /\ \A v \in D :
                    Cardinality({i \in 1 .. Len(delivered[v]) : delivered[v][i] = Entry(f)}) = 1

\* A broadcast to two viewers has delivered to both.
C5_Witness ==
    \E f \in FrameCallers :
        /\ Finished(f)
        /\ bcast[f].snap = Viewers
        /\ bcast[f].got = Viewers

\* C6: every viewer receives the frames in the order the throttle accepted them.
C6_AcceptedOrder ==
    \A v \in Viewers :
        \A i, j \in 1 .. Len(delivered[v]) :
            i < j => delivered[v][i].at < delivered[v][j].at

\* C7: a Server.Close call that begins after another has returned closes no
\* connection again. (It cannot release the session again: cancelling a cancelled
\* context does nothing.)
C7_LaterCloseNoOp == reclosed = 0

\* C8: no call runs against the session outside Chrome.mu while a caller holds it:
\* neither a frame acknowledgement nor Chrome.Close.
C8_ExclusiveSession ==
    (acksRunning > 0 \/ \E k \in Closers : pc[k] = "alloc") => cmu = None

\* C9, as stated: the caller served is the one that called Lock first among those
\* waiting.
C9_FirstCome == ~overtook

\* The step in which Lock returns to a caller (used by C9).
C9_Served ==
    \A p \in CmdProcs :
        pc[p] = "wait" /\ pc'[p] = "run" =>
            /\ cmu = None
            /\ p \in Range(waitq)
            /\ cmu' = p

\* C9, amended: a caller is served only after it called Lock and only when nobody
\* holds the mutex; the callers waiting are exactly those that called and were not
\* served. Which of them is served next is not determined.
C9_ServedWhenFree ==
    /\ [](\A p \in CmdProcs : pc[p] = "wait" <=> p \in Range(waitq))
    /\ [][C9_Served]_vars

\* A caller is executing, having overtaken one that still waits.
C9_Witness ==
    /\ overtook
    /\ \E p \in CmdProcs : InRegion(p)
    /\ waitq # <<>>

\* The attach step of a viewer while the screencast is stopped (used by C10).
C10_Starts ==
    \A v \in Viewers :
        v \notin clients /\ v \in clients' /\ ~streaming =>
            pc'[v] = "wait" /\ cmd'[v].kind = "StartScreencast"

\* C10, as stated: a viewer attaching while the screencast is stopped issues a
\* start-streaming command.
C10_AttachStarts == [][C10_Starts]_vars

\* The attach step, and the steps that change the streaming state (used by C10).
C10_Attach ==
    /\ \A v \in Viewers :
        v \notin clients /\ v \in clients' =>
            /\ streaming' = streaming /\ listeners' = listeners
            /\ cmd' = cmd /\ waitq' = waitq
            /\ pc'[v] = "read"
    /\ streaming' # streaming =>
        \E h \in Https :
            /\ pc[h] = "run"
            /\ cmd[h].kind = (IF streaming' THEN "StartScreencast" ELSE "StopScreencast")

\* C10, amended: a viewer attaching issues no command and leaves the streaming state
\* as it is, stopped or active; the state changes only in a start-stream or stop-stream
\* request's command.
C10_AttachLeavesStreaming == [][C10_Attach]_vars

\* Both viewers are attached, the screencast is stopped and nobody has asked to start it.
C10_Witness ==
    /\ clients = Viewers
    /\ ~streaming
    /\ listeners = 0
    /\ \A p \in CmdProcs : cmd[p].kind # "StartScreencast"

\* The step issues an operation to the session: a command caller's Lock has returned and
\* its chromedp.Run follows, or an acknowledgement goroutine enters chromedp.Run (used
\* by C11).
C11_Issues ==
    \/ \E p \in CmdProcs : pc[p] = "wait" /\ pc'[p] = "run"
    \/ acksRunning' > acksRunning

\* C11: once Chrome.Close has released the session, no step issues an operation to it.
C11_NoOpAfterRelease == [][released => ~C11_Issues]_vars

\* A step in which a viewer leaves the registry or its connection is closed, and the
\* steps that change the streaming state (used by C12).
C12_Detach ==
    /\ \A v \in Viewers :
        \/ v \in clients /\ v \notin clients'
        \/ conn[v] # "closed" /\ conn'[v] = "closed"
        => /\ streaming' = streaming /\ listeners' = listeners
           /\ cmd' = cmd /\ waitq' = waitq
    /\ streaming' # streaming =>
        /\ clients' = clients
        /\ \E p \in CmdProcs :
            /\ pc[p] = "run" /\ pc'[p] # "run"
            /\ cmd[p].kind \in {"StartScreencast", "StopScreencast"}

\* C12: a viewer detaching or disconnecting, the last one included, issues no command
\* and leaves the streaming state as it is; the state changes only in a step of a
\* start-stream or stop-stream command, which leaves the registry alone.
C12_DetachLeavesStreaming == [][C12_Detach]_vars

\* The screencast is active, every viewer that was attached has left and closed, and
\* nobody is asking to stop it.
C12_Witness ==
    /\ streaming
    /\ clients = {}
    /\ \A v \in Viewers : pc[v] = "exited"
    /\ \A p \in CmdProcs : cmd[p].kind # "StopScreencast"

\* The session button a click's numeric code stands for (used by C13).
C13_Button(code) == IF code = 1 THEN "Middle" ELSE IF code = 2 THEN "Right" ELSE "Left"

\* The session operations an input event stands for, in order (used by C13).
C13_Ops(e) ==
    CASE e.type = "mousemove" ->
            <<[op |-> "MouseMoved", args |-> <<e.x, e.y>>, btn |-> None]>>
      [] e.type \in {"mousedown", "click"} ->
            <<[op |-> "MousePressed", args |-> <<e.x, e.y>>, btn |-> C13_Button(e.button)],
              [op |-> "MouseReleased", args |-> <<e.x, e.y>>, btn |-> C13_Button(e.button)]>>
      [] e.type = "keydown" -> <<[op |-> "KeyEvent", args |-> <<e.key>>, btn |-> None]>>
      [] e.type = "text" -> <<[op |-> "InsertText", args |-> <<e.text>>, btn |-> None]>>
      [] e.type = "wheel" ->
            <<[op |-> "MouseWheel", args |-> <<e.x, e.y, e.deltaX, e.deltaY>>,
               btn |-> None]>>
      [] OTHER -> <<>>

\* C13: a viewer's loop has a command under way exactly for an event of a known type,
\* one command of the kind of that type; what the session executes for it is the
\* operation the event stands for, with the event's coordinates or payload and, for a
\* click, the press and then the release with the button of the event's code; an event
\* of another type leaves the loop reading.
C13_InputTranslation ==
    \A v \in Viewers :
        /\ pc[v] \in {"wait", "run", "run2"} <=> ev[v] # NoEvent
        /\ ev[v] = NoEvent => cmd[v] = NoCmd
        /\ ev[v] # NoEvent =>
            /\ C13_Ops(ev[v]) # <<>>
            /\ cmd[v].kind =
                  (CASE ev[v].type = "mousemove" -> "MouseMove"
                     [] ev[v].type \in {"mousedown", "click"} -> "MouseClick"
                     [] ev[v].type = "keydown" -> "KeyPress"
                     [] ev[v].type = "text" -> "TypeText"
                     [] ev[v].type = "wheel" -> "Scroll"
                     [] OTHER -> None)
            /\ pc[v] = "run" => cmu = v /\ inflight = C13_Ops(ev[v])[1]
            /\ pc[v] = "run2" =>
                /\ cmu = v /\ Len(C13_Ops(ev[v])) = 2
                /\ inflight = C13_Ops(ev[v])[2]

\* A click with a button code outside 0..2 is between its press and its release; it is
\* the second message the loop has read.
C13_Witness ==
    \E v \in Viewers :
        /\ pc[v] = "run2"
        /\ ev[v].button = 3
        /\ inflight.btn = "Left"
        /\ msgs = 2

\* What a step does to a viewer's loop (used by C14): a message that cannot be parsed
\* issues nothing; after it, and after a command that failed or succeeded, the loop is
\* back at its read with the viewer attached and its connection as it was; the loop is
\* left only from the read, in a step that reads no message.
C14_Loop ==
    \A v \in Viewers :
        /\ pc[v] = "read" /\ pc'[v] = "cont" =>
            /\ cmd' = cmd /\ waitq' = waitq /\ inflight' = inflight /\ cmu' = cmu
            /\ clients' = clients /\ conn' = conn
        /\ pc[v] \in {"cont", "swallow"} /\ pc'[v] # pc[v] =>
            /\ pc'[v] = "read"
            /\ clients' = clients /\ conn' = conn
        /\ pc[v] \in {"run", "run2"} /\ pc'[v] \notin {"run", "run2"} =>
            /\ pc'[v] \in {"read", "swallow"}
            /\ clients' = clients /\ conn' = conn
        /\ pc[v] # "detach" /\ pc'[v] = "detach" =>
            /\ pc[v] = "read"
            /\ msgs' = msgs

\* C14: neither a message that cannot be parsed nor a failed command ends a viewer's
\* loop or detaches the viewer; the former issues no command; the loop ends only when
\* reading fails.
C14_ErrorTolerance == [][C14_Loop]_vars

\* One viewer's loop is past a failed command and another's past a message that could
\* not be parsed; both are attached with their connections open.
C14_Witness ==
    /\ pc["v1"] = "swallow"
    /\ pc["v2"] = "cont"
    /\ clients = Viewers
    /\ \A v \in Viewers : conn[v] = "open"

\* A step of a viewer's handler that detaches or closes its connection touches no other
\* connection, no other registry entry and no broadcast under way (used by C15).
C15_DetachStep ==
    \A v \in Viewers :
        pc[v] \in {"detach", "vclose"} /\ pc'[v] # pc[v] =>
            /\ \A w \in Viewers \ {v} :
                /\ conn'[w] = conn[w]
                /\ w \in clients' <=> w \in clients
                /\ delivered'[w] = delivered[w]
            /\ \A f \in FrameCallers :
                /\ pc'[f] = pc[f] /\ cur'[f] = cur[f]
                /\ snap'[f] = snap[f] /\ bcast'[f] = bcast[f]

\* Every connection of a broadcast's snapshot is still to be attempted, being attempted
\* or accounted for, whoever has detached meanwhile; a finished broadcast has attempted
\* them all (used by C15).
C15_AllAttempted ==
    \A f \in FrameCallers :
        /\ bcast[f].open =>
            bcast[f].snap =
                bcast[f].got \cup bcast[f].failed \cup snap[f]
                    \cup (IF cur[f] = None THEN {} ELSE {cur[f]})
        /\ Finished(f) => bcast[f].snap = bcast[f].got \cup bcast[f].failed
        /\ \A w \in bcast[f].got : Entry(f) \in Range(delivered[w])

\* C15: a viewer's handler detaching and closing its connection while a broadcast that
\* snapshotted it is under way changes nothing for the other connections, and the
\* broadcast attempts every connection of its snapshot.
C15_DetachDuringBroadcast == []C15_AllAttempted /\ [][C15_DetachStep]_vars

\* A broadcast to two viewers has delivered to one; the other's handler has exited and
\* closed its connection since the snapshot, and its send is still to come.
C15_Witness ==
    \E f \in FrameCallers : \E c, w \in Viewers :
        /\ c # w
        /\ bcast[f].open /\ bcast[f].snap = {c, w}
        /\ pc[c] = "exited" /\ c \in snap[f]
        /\ w \in bcast[f].got

\* C16: once a Server.Close call has returned, and while no other is closing
\* connections, the registry holds no closed connection: every connection the call
\* closed is out of s.clients.
C16_RegistryEmptied ==
    (closeDone > 0 /\ \A k \in Closers : pc[k] # "loop") =>
        \A c \in clients : conn[c] # "closed"

\* A step that changes s.clients finds s.mu free and leaves it free: it took the lock
\* exclusively and released it (used by C17).
C17_Mutation == clients' # clients => mu = None /\ mu' = None

\* Whoever is inside WriteMessage does not hold s.mu (used by C17).
C17_SendUnlocked ==
    \A f \in FrameCallers : pc[f] = "write" => mu # f

\* C17: s.clients changes only under the exclusive s.mu, and s.mu is not held by a
\* sender while it sends.
C17_LockDiscipline == []C17_SendUnlocked /\ [][C17_Mutation]_vars

\* Server.Close holds s.mu; a failed connection's removal and a viewer's detach wait
\* for it.
C17_Witness ==
    /\ mu \in Closers
    /\ \E f \in FrameCallers : pc[f] = "rm"
    /\ \E v \in Viewers : pc[v] = "detach"

C19_SingleListener ==
    \A f \in FrameCallers : lst[f] <= 1

\* C20: no two callers are inside WriteMessage on the same connection.
C20_SingleWriter ==
    \A f, g \in FrameCallers :
        f # g /\ pc[f] = "write" /\ pc[g] = "write" => cur[f] # cur[g]

====
